---- MODULE Spec2Model ----
(***************************************************************************)
(* State-machine model of the command-line programs of the repository:     *)
(*   - mlpack_preprocess_split (preprocess_split_main.cpp),                *)
(*   - the AdaBoostModel class and mlpack_adaboost (adaboost_main.cpp),    *)
(*   - mlpack_lars (lars_main.cpp).                                        *)
(* Column indices are 1-based here (0-based in the source).  A ratio is    *)
(* held in tenths (0.2 is 2), so that r*N is exact integer arithmetic.     *)
(***************************************************************************)
EXTENDS Integers, Sequences, FiniteSets, TLC

\* ------------------------------------------------------------ bounds
\* Largest number of points (columns) of an input dataset.
MaxPoints == 3
\* Largest number of rows of a training or test file of adaboost.
MaxRows == 3
\* Largest number of points of a training file of adaboost.
MaxTrainPoints == 2

\* Number of heap cells an AdaBoostModel's ensembles may occupy.
HeapSize == 2
\* Largest number of rows or columns of a matrix file of lars.
MaxLarsSize == 2

\* ------------------------------------------------- program constants
\* PARAM_DOUBLE_IN("test_ratio", ..., 0.2), in tenths.
DefaultTestRatio == 2

\* PARAM_INT_IN("iterations", ..., 1000).
DefaultIterations == 1000
\* enum WeakLearnerTypes { DECISION_STUMP, PERCEPTRON }.
DECISION_STUMP == 0
PERCEPTRON == 1
\* The null pointer.
NULL == 0

\* ------------------------------------------------------------- state
VARIABLES
  splitCli,      \* preprocess_split: the parsed command line (CLI::GetParam)
  splitPc,       \* preprocess_split: position in main
  fs,            \* the file system: path -> content, or NoFile
  randomSeed,    \* state of the process-wide random source
  seedCalls,     \* the arguments RandomSeed() was called with, in order
  data,          \* preprocess_split: arma::mat data (sequence of columns)
  value,         \* preprocess_split: the tuple data::Split returned
  order,         \* the permutation of column indices Split drew
  labelsRow,     \* preprocess_split: arma::rowvec labelsRow
  splitLog,      \* preprocess_split: Log::Warn / Log::Fatal messages
  loaded,        \* the paths data::Load has read in this run, in order
  saved,         \* the paths data::Save has written in this run, in order
  m,             \* the AdaBoostModel object: its five members
  heap,          \* the ensembles allocated with new: address -> object
  alive,         \* "alive", "destroyed" (destructor ran) or "crashed"
  archive,       \* the archive last written by Serialize (saving)
  savedFrom,     \* what the model held when that archive was written
  lastClassify,  \* the last Classify call: path taken, ensemble, result
  lastOp,        \* the operation last applied to the object
  everP,         \* the object has owned a perceptron ensemble
  adaCli,        \* adaboost: the parsed command line
  adaPc,         \* adaboost: position in main
  adaLog,        \* adaboost: Log::Warn / Log::Fatal messages
  trainingData,  \* adaboost: arma::mat trainingData
  labelsIn,      \* adaboost: the labels as read (labelsIn.row(0))
  labels,        \* adaboost: the normalized labels
  testingData,   \* adaboost: arma::mat testingData
  predictedLabels, \* adaboost: what Classify left in predictedLabels
  results,       \* adaboost: the reverted labels
  trainingFile,  \* adaboost: the training file as data::Load read it
  larsCli,       \* lars: the parsed command line (CLI::GetParam)
  larsPc,        \* lars: position in main
  larsLog,       \* lars: Log::Warn / Log::Fatal messages
  lars,          \* lars: the LARS object
  matX,          \* lars: arma::mat matX (its shape)
  matY,          \* lars: arma::mat matY (its shape)
  testPoints,    \* lars: arma::mat testPoints (its shape)
  larsPredictions \* lars: arma::vec predictions

splitVars == <<splitCli, splitPc, randomSeed, seedCalls, data, value,
               order, labelsRow, splitLog>>
ioVars == <<fs, loaded, saved>>
modelVars == <<m, heap, alive, archive, savedFrom, lastClassify, lastOp,
              everP>>
adaVars == <<adaCli, adaPc, adaLog, trainingData, labelsIn, labels,
             testingData, predictedLabels, results, trainingFile>>
larsVars == <<larsCli, larsPc, larsLog, lars, matX, matY, testPoints,
              larsPredictions>>

vars == <<splitVars, ioVars, modelVars, adaVars, larsVars>>
\* What a run of preprocess_split leaves alone, and what operations on an
\* AdaBoostModel object leave alone.
notSplit == <<modelVars, adaVars, larsVars>>
notModel == <<splitVars, ioVars, adaVars, larsVars>>

\* A file is absent, or holds a matrix: the sequence of its columns.
NoFile == [kind |-> "none", cols |-> <<>>]
Mat(cols) == [kind |-> "mat", cols |-> cols]
NoValue == <<>>

\* ------------------------------------------------------ input domains
\* test_ratio values, in tenths: below range, 0, 0.2, 0.5, 1, above range.
Ratios == {-1, 0, 2, 5, 10, 11}
\* --seed values; 0 asks for std::time(NULL).
Seeds == {0, 7, 42}
\* Values std::time(NULL) may return.
Times == {3, 4}
\* Label values found in a labels file.
LabelVals == {2, 5}

\* The dataset of n points: point i is the column holding 10*i.
Dataset(n) == [i \in 1..n |-> 10 * i]

SeqSet(s) == {s[i] : i \in 1..Len(s)}

\* ------------------------------------------- library (not under src/)
\* mlpack::math::RandomSeed(seed): the random source restarts from seed.
RandomSeed(seed) == seed % 16

\* One draw of the random source.
NextRand(s) == (5 * s + 3) % 16

\* arma::shuffle of the indices 1..n: a permutation that is a function of
\* the state of the random source, which it advances.
RECURSIVE FisherYates(_, _, _)
FisherYates(ord, s, i) ==
  IF i < 2 THEN [order |-> ord, rng |-> s]
  ELSE LET s2 == NextRand(s)
           j == (s2 % i) + 1
       IN FisherYates([ord EXCEPT ![i] = ord[j], ![j] = ord[i]], s2, i - 1)

Shuffle(s, n) == FisherYates([k \in 1..n |-> k], s, n)

\* round(r * n) for a ratio r held in tenths.
Round(r, n) == (2 * r * n + 10) \div 20

\* data::Split(input, testRatio): the first n - testSize shuffled columns
\* are the training set, the remaining testSize the test set.
Split(input, testRatio, s) ==
  LET n == Len(input)
      testSize == Round(testRatio, n)
      trainSize == n - testSize
      sh == Shuffle(s, n)
  IN [train |-> [i \in 1..trainSize |-> input[sh.order[i]]],
      test |-> [i \in 1..testSize |-> input[sh.order[trainSize + i]]],
      order |-> sh.order,
      rng |-> sh.rng]

\* data::Split(input, inputLabel, testRatio): one shuffle for both.
SplitLabels(input, inputLabel, testRatio, s) ==
  LET n == Len(input)
      testSize == Round(testRatio, n)
      trainSize == n - testSize
      sh == Shuffle(s, n)
  IN [train |-> [i \in 1..trainSize |-> input[sh.order[i]]],
      test |-> [i \in 1..testSize |-> input[sh.order[trainSize + i]]],
      trainLabels |-> [i \in 1..trainSize |-> inputLabel[sh.order[i]]],
      testLabels |->
        [i \in 1..testSize |-> inputLabel[sh.order[trainSize + i]]],
      order |-> sh.order,
      rng |-> sh.rng]

\* data::Save(path, content): overwrites the destination.
Save(files, path, content) == [files EXCEPT ![path] = Mat(content)]

\* ============================================== preprocess_split main
Paths == {"in.csv", "labels.csv", "train.csv", "test.csv",
          "trainl.csv", "testl.csv", "model.bin", "model_out.bin",
          "predictions.csv", "x.csv", "y.csv", "lars.bin", "lars_out.bin",
          "predictions_old.csv"}

\* CLI::HasParam for a string parameter: it was passed (non-empty).
HasParam(cli, name) == cli[name] # ""

SplitCliSet ==
  {c \in [input_file : {"in.csv"},
          input_labels_file : {"", "labels.csv"},
          training_file : {"", "train.csv", "in.csv"},
          test_file : {"", "test.csv", "train.csv"},
          training_labels_file : {"", "trainl.csv"},
          test_labels_file : {"", "testl.csv"},
          has_test_ratio : BOOLEAN,
          test_ratio : Ratios,
          seed : Seeds] :
     ~c.has_test_ratio => c.test_ratio = DefaultTestRatio}

\* The file systems a run may start from: the input dataset, the labels
\* (one per point) when a labels file is named, and no output file yet.
SplitFsSet(cli) ==
  {[p \in Paths |->
      IF p = "in.csv" THEN Mat(Dataset(n))
      ELSE IF p = "labels.csv" /\ HasParam(cli, "input_labels_file")
        THEN Mat(l)
      ELSE NoFile] :
     n \in 1..MaxPoints, l \in UNION {[1..k -> LabelVals] : k \in 1..MaxPoints}}

SplitInit ==
  /\ splitCli \in SplitCliSet
  /\ fs \in {f \in SplitFsSet(splitCli) :
               f["labels.csv"] # NoFile =>
                 Len(f["labels.csv"].cols) = Len(f["in.csv"].cols)}
  /\ splitPc = "seed"
  /\ randomSeed = 0
  /\ seedCalls = <<>>
  /\ data = <<>>
  /\ value = NoValue
  /\ order = <<>>
  /\ labelsRow = <<>>
  /\ splitLog = {}
  /\ loaded = <<>>
  /\ saved = <<>>

\* Variant: the random source is always seeded from the clock.
SplitRandomSeed_AlwaysTime ==
  /\ splitPc = "seed"
  /\ \E t \in Times :
       /\ randomSeed' = RandomSeed(t)
       /\ seedCalls' = Append(seedCalls, t)
  /\ splitPc' = "warn"
  /\ UNCHANGED <<notSplit, splitCli, data, value, order, labelsRow, splitLog, ioVars>>

\* Lines 83-86: seed the random source.
SplitRandomSeed ==
  /\ splitPc = "seed"
  /\ \E t \in Times :
       LET arg == IF splitCli.seed = 0 THEN t ELSE splitCli.seed
       IN /\ randomSeed' = RandomSeed(arg)
          /\ seedCalls' = Append(seedCalls, arg)
  /\ splitPc' = "warn"
  /\ UNCHANGED <<notSplit, splitCli, data, value, order, labelsRow, splitLog, ioVars>>

\* Lines 88-118: warnings about the output file names.
SplitWarnings ==
  (IF splitCli.training_file = "" THEN {"no_training_file"} ELSE {})
  \cup (IF splitCli.test_file = "" THEN {"no_test_file"} ELSE {})
  \cup (IF HasParam(splitCli, "input_labels_file")
        THEN (IF ~HasParam(splitCli, "training_labels_file")
              THEN {"no_training_labels_file"} ELSE {})
             \cup (IF ~HasParam(splitCli, "test_labels_file")
                   THEN {"no_test_labels_file"} ELSE {})
        ELSE (IF HasParam(splitCli, "training_labels_file")
              THEN {"training_labels_file_ignored"} ELSE {})
             \cup (IF HasParam(splitCli, "test_labels_file")
                   THEN {"test_labels_file_ignored"} ELSE {}))

SplitCheckOutputs ==
  /\ splitPc = "warn"
  /\ splitLog' = splitLog \cup SplitWarnings
  /\ splitPc' = "ratio"
  /\ UNCHANGED <<notSplit, splitCli, randomSeed, seedCalls, data, value, order,
                 labelsRow, ioVars>>

\* Variant: only the upper end of the range is checked.
RatioInvalid_UpperOnly(cli) == cli.test_ratio > 10

\* Lines 120-133: the test_ratio check.
RatioInvalid(cli) == (cli.test_ratio < 0) \/ (cli.test_ratio > 10)

SplitCheckRatio ==
  /\ splitPc = "ratio"
  /\ IF splitCli.has_test_ratio
     THEN IF RatioInvalid(splitCli)
          THEN /\ splitLog' = splitLog \cup {"fatal_test_ratio"}
               /\ splitPc' = "fatal"
          ELSE /\ splitLog' = splitLog
               /\ splitPc' = "load"
     ELSE /\ splitLog' = splitLog \cup {"test_ratio_defaulted"}
          /\ splitPc' = "load"
  /\ UNCHANGED <<notSplit, splitCli, randomSeed, seedCalls, data, value, order,
                 labelsRow, ioVars>>

\* Lines 135-137: load the data.
SplitLoadData ==
  /\ splitPc = "load"
  /\ IF fs[splitCli.input_file] = NoFile
     THEN /\ splitPc' = "fatal"
          /\ splitLog' = splitLog \cup {"fatal_load"}
          /\ UNCHANGED <<data, loaded>>
     ELSE /\ splitPc' = "split"
          /\ splitLog' = splitLog
          /\ data' = fs[splitCli.input_file].cols
          /\ loaded' = Append(loaded, splitCli.input_file)
  /\ UNCHANGED <<notSplit, splitCli, fs, saved, randomSeed, seedCalls, value, order,
                 labelsRow>>

\* Variant: data and labels are split by two calls, each with its own
\* shuffle.
SplitWithLabels_TwoShuffles ==
  /\ splitPc = "split"
  /\ HasParam(splitCli, "input_labels_file")
  /\ LET labelsMat == fs[splitCli.input_labels_file].cols
         r == Split(data, splitCli.test_ratio, randomSeed)
         q == Split(labelsMat, splitCli.test_ratio, r.rng)
     IN /\ labelsRow' = labelsMat
        /\ value' = <<r.train, r.test, q.train, q.test>>
        /\ order' = r.order
        /\ randomSeed' = q.rng
  /\ loaded' = Append(loaded, splitCli.input_labels_file)
  /\ splitPc' = "save"
  /\ UNCHANGED <<notSplit, splitCli, fs, saved, seedCalls, data, splitLog>>

\* Lines 140-146: load the labels and split data and labels together.
SplitWithLabels ==
  /\ splitPc = "split"
  /\ HasParam(splitCli, "input_labels_file")
  /\ LET labelsMat == fs[splitCli.input_labels_file].cols
         r == SplitLabels(data, labelsMat, splitCli.test_ratio, randomSeed)
     IN /\ labelsRow' = labelsMat
        /\ value' = <<r.train, r.test, r.trainLabels, r.testLabels>>
        /\ order' = r.order
        /\ randomSeed' = r.rng
  /\ loaded' = Append(loaded, splitCli.input_labels_file)
  /\ splitPc' = "save"
  /\ UNCHANGED <<notSplit, splitCli, fs, saved, seedCalls, data, splitLog>>

\* Variant: the ratio of the training set is passed for the test ratio.
SplitNoLabels_TrainRatio ==
  /\ splitPc = "split"
  /\ ~HasParam(splitCli, "input_labels_file")
  /\ LET r == Split(data, 10 - splitCli.test_ratio, randomSeed)
     IN /\ value' = <<r.train, r.test>>
        /\ order' = r.order
        /\ randomSeed' = r.rng
  /\ splitPc' = "save"
  /\ UNCHANGED <<notSplit, splitCli, seedCalls, data, labelsRow, splitLog, ioVars>>

\* Line 163: split the dataset alone.
SplitNoLabels ==
  /\ splitPc = "split"
  /\ ~HasParam(splitCli, "input_labels_file")
  /\ LET r == Split(data, splitCli.test_ratio, randomSeed)
     IN /\ value' = <<r.train, r.test>>
        /\ order' = r.order
        /\ randomSeed' = r.rng
  /\ splitPc' = "save"
  /\ UNCHANGED <<notSplit, splitCli, seedCalls, data, labelsRow, splitLog, ioVars>>

\* Save `content` to `path` unless the path is empty.
SaveIf(files, path, content) ==
  IF path # "" THEN Save(files, path, content) ELSE files

\* The paths among `paths`, in order, that are not empty.
RECURSIVE NonEmpty(_)
NonEmpty(paths) ==
  IF paths = <<>> THEN <<>>
  ELSE IF Head(paths) = "" THEN NonEmpty(Tail(paths))
  ELSE <<Head(paths)>> \o NonEmpty(Tail(paths))

\* Lines 152-159: the saves of the labelled branch, in order.
SplitSaveLabelled ==
  /\ splitPc = "save"
  /\ HasParam(splitCli, "input_labels_file")
  /\ fs' = SaveIf(SaveIf(SaveIf(SaveIf(fs,
               splitCli.training_file, value[1]),
               splitCli.test_file, value[2]),
               splitCli.training_labels_file, value[3]),
               splitCli.test_labels_file, value[4])
  /\ saved' = saved \o NonEmpty(<<splitCli.training_file,
                 splitCli.test_file, splitCli.training_labels_file,
                 splitCli.test_labels_file>>)
  /\ splitPc' = "done"
  /\ UNCHANGED <<notSplit, splitCli, loaded, randomSeed, seedCalls, data, value, order,
                 labelsRow, splitLog>>

\* Lines 169-172: the saves of the unlabelled branch, in order.
SplitSaveUnlabelled ==
  /\ splitPc = "save"
  /\ ~HasParam(splitCli, "input_labels_file")
  /\ fs' = SaveIf(SaveIf(fs,
               splitCli.training_file, value[1]),
               splitCli.test_file, value[2])
  /\ saved' = saved \o NonEmpty(<<splitCli.training_file,
                 splitCli.test_file>>)
  /\ splitPc' = "done"
  /\ UNCHANGED <<notSplit, splitCli, loaded, randomSeed, seedCalls, data, value, order,
                 labelsRow, splitLog>>

SplitNext ==
  \/ SplitRandomSeed
  \/ SplitCheckOutputs
  \/ SplitCheckRatio
  \/ SplitLoadData
  \/ SplitWithLabels
  \/ SplitNoLabels
  \/ SplitSaveLabelled
  \/ SplitSaveUnlabelled


\* ======================================================= AdaBoostModel
\* Values the member weakLearnerType (a size_t) may hold: the two
\* enumerators and one value that is neither.
TagVals == {DECISION_STUMP, PERCEPTRON, PERCEPTRON + 1}

\* Heap cells: free, or an ensemble AdaBoost<DecisionStump<>> ("ds") or
\* AdaBoost<Perceptron<>> ("p") with what training put in it.
Addrs == 1..HeapSize
Free == [kind |-> "free", fit |-> 0, classes |-> 0]
\* A null pointer in an archive.
NullPayload == [kind |-> "null", fit |-> 0, classes |-> 0]

FreeAddrs(hp) == {a \in Addrs : hp[a] = Free}

\* new: the object is placed in a free cell (the lowest).
New(hp, obj) ==
  LET a == CHOOSE x \in FreeAddrs(hp) : \A y \in FreeAddrs(hp) : x <= y
  IN [ptr |-> a, heap |-> [hp EXCEPT ![a] = obj]]

\* delete p.
Delete(hp, ptr) == [hp EXCEPT ![ptr] = Free]

\* if (p) delete p.
DeleteIf(hp, ptr) == IF ptr # NULL THEN Delete(hp, ptr) ELSE hp

SeqMax(s) == CHOOSE x \in SeqSet(s) : \A y \in SeqSet(s) : y <= x

\* AdaBoost<WeakLearner>(data, labels, learner, iterations, tolerance): the
\* trained ensemble is a function of the training data and labels; it
\* predicts classes 0 .. max(labels).
Ensemble(kind, trainData, trainLabels) ==
  [kind |-> kind, fit |-> trainData.rows, classes |-> SeqMax(trainLabels) + 1]

\* AdaBoost<WeakLearner>::Classify(testData, predictions): one class per
\* test point, a function of the ensemble and the point.
Predict(ens, testData) ==
  [i \in 1..Len(testData.cols) |->
     (testData.cols[i][1] + ens.fit + (IF ens.kind = "p" THEN 1 ELSE 0))
       % ens.classes]

\* Lines 125-137: the two constructors.  The default constructor leaves
\* weakLearnerType uninitialized: it may hold any value.
Constructed(mappings, type) ==
  [mappings |-> mappings, weakLearnerType |-> type, dsBoost |-> NULL,
   pBoost |-> NULL, dimensionality |-> 0]

\* Variant: the dimensionality recorded is the number of points (n_cols).
Train_DimensionalityFromColumns(model, hp, trainData, trainLabels) ==
  LET m1 == [model EXCEPT !.dimensionality = Len(trainData.cols)]
  IN IF model.weakLearnerType = DECISION_STUMP
     THEN LET n == New(DeleteIf(hp, model.dsBoost),
                       Ensemble("ds", trainData, trainLabels))
          IN [m |-> [m1 EXCEPT !.dsBoost = n.ptr], heap |-> n.heap]
     ELSE IF model.weakLearnerType = PERCEPTRON
     THEN LET n == New(hp, Ensemble("p", trainData, trainLabels))
          IN [m |-> [m1 EXCEPT !.pBoost = n.ptr], heap |-> n.heap]
     ELSE [m |-> m1, heap |-> hp]

\* Lines 163-184: AdaBoostModel::Train.
Train(model, hp, trainData, trainLabels) ==
  LET m1 == [model EXCEPT !.dimensionality = trainData.rows]
  IN IF model.weakLearnerType = DECISION_STUMP
     THEN LET n == New(DeleteIf(hp, model.dsBoost),
                       Ensemble("ds", trainData, trainLabels))
          IN [m |-> [m1 EXCEPT !.dsBoost = n.ptr], heap |-> n.heap]
     ELSE IF model.weakLearnerType = PERCEPTRON
     THEN LET n == New(hp, Ensemble("p", trainData, trainLabels))
          IN [m |-> [m1 EXCEPT !.pBoost = n.ptr], heap |-> n.heap]
     ELSE [m |-> m1, heap |-> hp]

\* Train needs a heap cell for the new ensemble.
TrainHasRoom(model, hp) ==
  \/ model.weakLearnerType \notin {DECISION_STUMP, PERCEPTRON}
  \/ FreeAddrs(hp) # {}
  \/ model.weakLearnerType = DECISION_STUMP /\ model.dsBoost # NULL

\* Variant: the path is chosen by which pointer is set, not by the tag.
Classify_ByPointer(model, hp, testData, predictions) ==
  IF model.dsBoost # NULL
  THEN [via |-> "ds", used |-> model.dsBoost, crashed |-> FALSE,
        predictions |-> Predict(hp[model.dsBoost], testData)]
  ELSE IF model.pBoost # NULL
  THEN [via |-> "p", used |-> model.pBoost, crashed |-> FALSE,
        predictions |-> Predict(hp[model.pBoost], testData)]
  ELSE [via |-> "none", used |-> NULL, crashed |-> FALSE,
        predictions |-> predictions]

NoClassify == [via |-> "none", used |-> NULL, crashed |-> FALSE,
               predictions |-> <<>>, after |-> "none"]

\* Lines 187-193: AdaBoostModel::Classify.  `predictions` is what the
\* caller passed in; a call through a null pointer ends the process.
Classify(model, hp, testData, predictions) ==
  IF model.weakLearnerType = DECISION_STUMP
  THEN IF model.dsBoost = NULL
       THEN [via |-> "ds", used |-> NULL, crashed |-> TRUE,
             predictions |-> <<>>]
       ELSE [via |-> "ds", used |-> model.dsBoost, crashed |-> FALSE,
             predictions |-> Predict(hp[model.dsBoost], testData)]
  ELSE IF model.weakLearnerType = PERCEPTRON
  THEN IF model.pBoost = NULL
       THEN [via |-> "p", used |-> NULL, crashed |-> TRUE,
             predictions |-> <<>>]
       ELSE [via |-> "p", used |-> model.pBoost, crashed |-> FALSE,
             predictions |-> Predict(hp[model.pBoost], testData)]
  ELSE [via |-> "none", used |-> NULL, crashed |-> FALSE,
        predictions |-> predictions]

\* ar & pointer, saving: the object pointed to, or a null marker.
SavePtr(hp, ptr) == IF ptr = NULL THEN NullPayload ELSE hp[ptr]

\* Variant: the decision-stump pointer is written for either known tag.
SerializeSave_AlwaysStump(model, hp) ==
  <<model.mappings, model.weakLearnerType>>
  \o (IF model.weakLearnerType \in {DECISION_STUMP, PERCEPTRON}
      THEN <<SavePtr(hp, model.dsBoost)>>
      ELSE <<>>)
  \o <<model.dimensionality>>

\* Lines 210-216, saving: the fields written, in order.
SerializeSave(model, hp) ==
  <<model.mappings, model.weakLearnerType>>
  \o (IF model.weakLearnerType = DECISION_STUMP
      THEN <<SavePtr(hp, model.dsBoost)>>
      ELSE IF model.weakLearnerType = PERCEPTRON
      THEN <<SavePtr(hp, model.pBoost)>>
      ELSE <<>>)
  \o <<model.dimensionality>>

\* ar & pointer, loading: a new object holding what was archived, or null.
LoadPtr(hp, payload) ==
  IF payload = NullPayload THEN [ptr |-> NULL, heap |-> hp]
  ELSE New(hp, payload)

\* Variant: only the pointer the loaded tag selects is deleted and nulled
\* before it is read; the other one is kept.
SerializeLoad_KeepOther(model, hp, ar) ==
  LET m1 == [model EXCEPT !.mappings = ar[1], !.weakLearnerType = ar[2]]
  IN IF ar[2] = DECISION_STUMP
     THEN LET n == LoadPtr(DeleteIf(hp, model.dsBoost), ar[3])
          IN [m |-> [m1 EXCEPT !.dsBoost = n.ptr, !.dimensionality = ar[4]],
              heap |-> n.heap]
     ELSE IF ar[2] = PERCEPTRON
     THEN LET n == LoadPtr(DeleteIf(hp, model.pBoost), ar[3])
          IN [m |-> [m1 EXCEPT !.pBoost = n.ptr, !.dimensionality = ar[4]],
              heap |-> n.heap]
     ELSE [m |-> [m1 EXCEPT !.dimensionality = ar[3]], heap |-> hp]

\* Lines 199-216, loading: both ensembles are deleted and nulled, then the
\* fields are read in order; the tag read decides which pointer is read.
SerializeLoad(model, hp, ar) ==
  LET hp1 == DeleteIf(DeleteIf(hp, model.dsBoost), model.pBoost)
      m1 == [model EXCEPT !.dsBoost = NULL, !.pBoost = NULL,
                          !.mappings = ar[1], !.weakLearnerType = ar[2]]
  IN IF ar[2] = DECISION_STUMP
     THEN LET n == LoadPtr(hp1, ar[3])
          IN [m |-> [m1 EXCEPT !.dsBoost = n.ptr, !.dimensionality = ar[4]],
              heap |-> n.heap]
     ELSE IF ar[2] = PERCEPTRON
     THEN LET n == LoadPtr(hp1, ar[3])
          IN [m |-> [m1 EXCEPT !.pBoost = n.ptr, !.dimensionality = ar[4]],
              heap |-> n.heap]
     ELSE [m |-> [m1 EXCEPT !.dimensionality = ar[3]], heap |-> hp1]

\* Loading needs a heap cell for the ensemble read.
LoadHasRoom(model, hp) ==
  FreeAddrs(DeleteIf(DeleteIf(hp, model.dsBoost), model.pBoost)) # {}

\* Lines 139-145: the destructor.
Destroy(model, hp) == DeleteIf(DeleteIf(hp, model.dsBoost), model.pBoost)

\* The ensemble the tag selects: its address, and what it holds.
Selected(model) ==
  IF model.weakLearnerType = DECISION_STUMP THEN model.dsBoost
  ELSE IF model.weakLearnerType = PERCEPTRON THEN model.pBoost
  ELSE NULL

SelectedEnsemble(model, hp) == SavePtr(hp, Selected(model))

\* ---- operations on one AdaBoostModel object, in any order
\* Mapping tables a caller may install (Mappings() returns a reference).
MappingTables == {<<2, 5>>, <<5, 9>>}
\* Training sets: two points of one or two dimensions.
TrainSets == {[rows |-> 1, cols |-> <<<<1>>, <<2>>>>],
              [rows |-> 2, cols |-> <<<<1, 1>>, <<2, 2>>>>]}
\* Normalized training labels.
TrainLabels == {<<0, 1>>}
\* Test sets: the columns to classify.
TestSets == {[rows |-> 1, cols |-> <<<<0>>, <<1>>>>]}

NoArchive == <<>>
NoSnapshot == [mappings |-> <<>>, weakLearnerType |-> PERCEPTRON + 1,
               ensemble |-> NullPayload, dimensionality |-> 0,
               predictions |-> <<>>]

ModelInit ==
  /\ m \in {Constructed(mp, t) : mp \in {<<>>} \cup MappingTables,
                                  t \in TagVals}
  /\ heap = [a \in Addrs |-> Free]
  /\ alive = "alive"
  /\ archive = NoArchive
  /\ savedFrom = NoSnapshot
  /\ lastClassify = NoClassify
  /\ lastOp = "construct"
  /\ everP = FALSE

\* Line 155: m.WeakLearnerType() = t.
ModelSetWeakLearnerType ==
  /\ alive = "alive"
  /\ \E t \in TagVals :
       /\ t # m.weakLearnerType
       /\ m' = [m EXCEPT !.weakLearnerType = t]
  /\ lastOp' = "set_type"
  /\ lastClassify' = NoClassify
  /\ UNCHANGED <<notModel, heap, alive, archive, savedFrom, everP>>

\* Line 150: m.Mappings() = mp.
ModelSetMappings ==
  /\ alive = "alive"
  /\ \E mp \in MappingTables :
       /\ mp # m.mappings
       /\ m' = [m EXCEPT !.mappings = mp]
  /\ lastOp' = "set_mappings"
  /\ lastClassify' = NoClassify
  /\ UNCHANGED <<notModel, heap, alive, archive, savedFrom, everP>>

ModelTrain ==
  /\ alive = "alive"
  /\ TrainHasRoom(m, heap)
  /\ \E d \in TrainSets, l \in TrainLabels :
       LET r == Train(m, heap, d, l)
       IN /\ m' = r.m
          /\ heap' = r.heap
          /\ everP' = (everP \/ r.m.pBoost # NULL)
  /\ lastOp' = "train"
  /\ lastClassify' = NoClassify
  /\ UNCHANGED <<notModel, alive, archive, savedFrom>>

ModelClassify ==
  /\ alive = "alive"
  /\ \E t \in TestSets :
       LET r == Classify(m, heap, t, <<>>)
       IN /\ lastClassify' = [via |-> r.via, used |-> r.used,
                              crashed |-> r.crashed,
                              predictions |-> r.predictions,
                              after |-> lastOp]
          /\ alive' = IF r.crashed THEN "crashed" ELSE alive
  /\ lastOp' = "classify"
  /\ UNCHANGED <<notModel, m, heap, archive, savedFrom, everP>>

\* What Classify returns for each test set (<<>> when it cannot).
PredictionsOf(model, hp) ==
  [t \in TestSets |-> Classify(model, hp, t, <<>>).predictions]

ModelSave ==
  /\ alive = "alive"
  /\ archive' = SerializeSave(m, heap)
  /\ savedFrom' = [mappings |-> m.mappings,
                   weakLearnerType |-> m.weakLearnerType,
                   ensemble |-> SelectedEnsemble(m, heap),
                   dimensionality |-> m.dimensionality,
                   predictions |-> PredictionsOf(m, heap)]
  /\ lastOp' = "save"
  /\ lastClassify' = NoClassify
  /\ UNCHANGED <<notModel, m, heap, alive, everP>>

ModelLoad ==
  /\ alive = "alive"
  /\ archive # NoArchive
  /\ LoadHasRoom(m, heap)
  /\ LET r == SerializeLoad(m, heap, archive)
     IN /\ m' = r.m
        /\ heap' = r.heap
        /\ everP' = (everP \/ r.m.pBoost # NULL)
  /\ lastOp' = "load"
  /\ lastClassify' = NoClassify
  /\ UNCHANGED <<notModel, alive, archive, savedFrom>>

ModelDestroy ==
  /\ alive = "alive"
  /\ heap' = Destroy(m, heap)
  /\ alive' = "destroyed"
  /\ lastOp' = "destroy"
  /\ lastClassify' = NoClassify
  /\ UNCHANGED <<notModel, m, archive, savedFrom, everP>>

ModelNext ==
  \/ ModelSetWeakLearnerType
  \/ ModelSetMappings
  \/ ModelTrain
  \/ ModelClassify
  \/ ModelSave
  \/ ModelLoad
  \/ ModelDestroy

\* ======================================================= adaboost main
\* ---- library (not under src/)
\* The distinct values of s, in the order of their first appearance.
RECURSIVE Distinct(_)
Distinct(s) ==
  IF s = <<>> THEN <<>>
  ELSE LET d == Distinct(SubSeq(s, 1, Len(s) - 1))
           x == s[Len(s)]
       IN IF x \in SeqSet(d) THEN d ELSE Append(d, x)

\* data::NormalizeLabels(labelsIn, labels, mapping): mapping[k] is the k-th
\* distinct label, labels[i] the (0-based) place of labelsIn[i] in it.
NormalizeLabels(in) ==
  LET mp == Distinct(in)
  IN [mappings |-> mp,
      labels |-> [i \in 1..Len(in) |->
                    (CHOOSE k \in 1..Len(mp) : mp[k] = in[i]) - 1]]

\* data::RevertLabels(labels, mapping, labelsOut): labelsOut[i] =
\* mapping[labels[i]]; `junk` is what a read past the end of the table
\* yields.
RevertLabels(normalized, mp, junk) ==
  [i \in 1..Len(normalized) |->
     IF normalized[i] < Len(mp) THEN mp[normalized[i] + 1] ELSE junk]

\* ---- inputs
\* The label vocabulary of training files: not contiguous.
Vocab == {2, 5, 9}
LabelSeqs == UNION {[1..n -> Vocab] : n \in 1..MaxTrainPoints}

\* A training file of r rows whose last row is lastRow; feature i of
\* point j is j.
TrainingFile(r, lastRow) ==
  [rows |-> r,
   cols |-> [j \in 1..Len(lastRow) |->
               [i \in 1..r |-> IF i = r THEN lastRow[j] ELSE j]]]

\* A test file of two points of r dimensions.
TestFile(r) ==
  [rows |-> r, cols |-> <<[i \in 1..r |-> 0], [i \in 1..r |-> 1]>>]

\* Model files: archives of trained models of either kind, and archives
\* whose stored weakLearnerType is neither enumerator.
InputArchives ==
  {<<mp, t, [kind |-> IF t = DECISION_STUMP THEN "ds" ELSE "p",
             fit |-> d, classes |-> Len(mp)], d>> :
     mp \in MappingTables, t \in {DECISION_STUMP, PERCEPTRON}, d \in 1..2}
  \cup {<<mp, PERCEPTRON + 1, d>> : mp \in MappingTables, d \in 1..2}

\* Values an uninitialized element of predictedLabels may hold.
GarbageLabels == {0, 1, 7}
\* Values a read past the end of the mapping table may yield.
JunkReads == {0, 77}

Optional == {"weak_learner", "tolerance", "iterations"}

AdaCliSet ==
  {c \in [training_file : {"", "train.csv"},
          labels_file : {"", "labels.csv"},
          input_model_file : {"", "model.bin"},
          output_model_file : {"", "model_out.bin"},
          test_file : {"", "test.csv"},
          output_file : {"", "predictions.csv"},
          iterations : {-1, DefaultIterations},
          weak_learner : {"decision_stump", "perceptron", "stump"},
          passed : SUBSET Optional] :
     /\ c.iterations # DefaultIterations => "iterations" \in c.passed
     /\ c.weak_learner # "decision_stump" => "weak_learner" \in c.passed}

\* CLI::HasParam for the parameters with a non-string or defaulted value.
Passed(cli, name) == name \in cli.passed

AdaInit ==
  /\ adaCli \in AdaCliSet
  /\ adaPc = "params"
  /\ adaLog = {}
  /\ trainingData = [rows |-> 0, cols |-> <<>>]
  /\ labelsIn = <<>>
  /\ labels = <<>>
  /\ testingData = [rows |-> 0, cols |-> <<>>]
  /\ predictedLabels = <<>>
  /\ results = <<>>
  /\ trainingFile = [rows |-> 0, cols |-> <<>>]
  \* Line 293: AdaBoostModel m; weakLearnerType is not initialized.
  /\ m \in {Constructed(<<>>, t) : t \in TagVals}
  /\ heap = [a \in Addrs |-> Free]
  /\ alive = "alive"
  /\ archive = NoArchive
  /\ savedFrom = NoSnapshot
  /\ lastClassify = NoClassify
  /\ lastOp = "construct"
  /\ everP = FALSE

\* Lines 226-291: the messages logged; Log::Fatal ends the run.
AdaParamLog(cli) ==
  IF HasParam(cli, "training_file") /\ HasParam(cli, "input_model_file")
  THEN {"fatal_both"}
  ELSE IF ~HasParam(cli, "training_file")
          /\ ~HasParam(cli, "input_model_file")
  THEN {"fatal_neither"}
  ELSE IF cli.weak_learner # "decision_stump"
          /\ cli.weak_learner # "perceptron"
  THEN {"fatal_weak_learner"}
  ELSE (IF HasParam(cli, "labels_file") /\ ~HasParam(cli, "training_file")
        THEN {"labels_file_ignored"} ELSE {})
       \cup
       (IF cli.iterations < 0 THEN {"fatal_iterations"}
        ELSE (IF HasParam(cli, "input_model_file")
                 /\ Passed(cli, "weak_learner")
              THEN {"weak_learner_ignored"} ELSE {})
             \cup (IF Passed(cli, "tolerance")
                      /\ ~HasParam(cli, "training_file")
                   THEN {"tolerance_ignored"} ELSE {})
             \cup (IF Passed(cli, "iterations")
                      /\ ~HasParam(cli, "training_file")
                   THEN {"iterations_ignored"} ELSE {})
             \cup (IF ~HasParam(cli, "output_model_file")
                      /\ ~HasParam(cli, "output_file")
                   THEN {"no_output"} ELSE {})
             \cup (IF HasParam(cli, "output_file")
                      /\ ~HasParam(cli, "test_file")
                   THEN {"output_file_ignored"} ELSE {}))

Fatals == {"fatal_both", "fatal_neither", "fatal_weak_learner",
           "fatal_iterations", "fatal_dimensionality"}

\* Variant: the negative-iterations message is logged with Log::Warn, so
\* the run goes on.
AdaCheckParams_IterationsNotFatal ==
  /\ adaPc = "params"
  /\ adaLog' = adaLog \cup AdaParamLog(adaCli)
  /\ adaPc' = IF AdaParamLog(adaCli) \cap (Fatals \ {"fatal_iterations"}) # {}
              THEN "fatal" ELSE "model"
  /\ UNCHANGED <<splitVars, larsVars, trainingFile, ioVars, modelVars,
                 adaCli, trainingData, labelsIn, labels, testingData,
                 predictedLabels, results>>

AdaCheckParams ==
  /\ adaPc = "params"
  /\ adaLog' = adaLog \cup AdaParamLog(adaCli)
  /\ adaPc' = IF AdaParamLog(adaCli) \cap Fatals # {} THEN "fatal"
              ELSE "model"
  /\ UNCHANGED <<splitVars, larsVars, trainingFile,
                 ioVars, modelVars, adaCli, trainingData,
                 labelsIn, labels, testingData, predictedLabels, results>>

\* trainingData.shed_row(trainingData.n_rows - 1).
ShedLastRow(mat) ==
  [rows |-> mat.rows - 1,
   cols |-> [j \in 1..Len(mat.cols) |->
               SubSeq(mat.cols[j], 1, mat.rows - 1)]]

\* trainingData.row(trainingData.n_rows - 1).
LastRow(mat) == [j \in 1..Len(mat.cols) |-> mat.cols[j][mat.rows]]

\* Lines 294-322: load the training set and its labels.
AdaLoadTraining ==
  /\ adaPc = "model"
  /\ HasParam(adaCli, "training_file")
  /\ \E r \in 2..MaxRows, lastRow \in LabelSeqs, labelsFile \in LabelSeqs :
       /\ Len(labelsFile) = Len(lastRow)
       /\ trainingFile' = TrainingFile(r, lastRow)
       /\ IF HasParam(adaCli, "labels_file")
          THEN /\ trainingData' = TrainingFile(r, lastRow)
               /\ labelsIn' = labelsFile
               /\ loaded' = loaded \o <<adaCli.training_file,
                                        adaCli.labels_file>>
          ELSE /\ trainingData' = ShedLastRow(TrainingFile(r, lastRow))
               /\ labelsIn' = LastRow(TrainingFile(r, lastRow))
               /\ loaded' = Append(loaded, adaCli.training_file)
  /\ adaPc' = "train"
  /\ UNCHANGED <<splitVars, larsVars, fs, saved, modelVars, adaCli, adaLog, labels,
                 testingData, predictedLabels, results>>

\* Lines 333-337: the tag named by --weak_learner.
WeakLearnerTag(model, weakLearner) ==
  IF weakLearner = "decision_stump" THEN DECISION_STUMP
  ELSE IF weakLearner = "perceptron" THEN PERCEPTRON
  ELSE model.weakLearnerType

\* Lines 324-341: normalize the labels, set the tag, train.
AdaTrain ==
  /\ adaPc = "train"
  /\ LET n == NormalizeLabels(labelsIn)
         m1 == [m EXCEPT !.mappings = n.mappings,
                         !.weakLearnerType =
                            WeakLearnerTag(m, adaCli.weak_learner)]
         r == Train(m1, heap, trainingData, n.labels)
     IN /\ labels' = n.labels
        /\ m' = r.m
        /\ heap' = r.heap
        /\ everP' = (everP \/ r.m.pBoost # NULL)
  /\ lastOp' = "train"
  /\ adaPc' = "test"
  /\ UNCHANGED <<splitVars, larsVars, trainingFile,
                 ioVars, alive, archive, savedFrom, lastClassify,
                 adaCli, adaLog, trainingData, labelsIn, testingData,
                 predictedLabels, results>>

\* Lines 343-348: load the model from --input_model_file.
AdaLoadModel ==
  /\ adaPc = "model"
  /\ ~HasParam(adaCli, "training_file")
  /\ \E ar \in InputArchives :
       LET r == SerializeLoad(m, heap, ar)
       IN /\ m' = r.m
          /\ heap' = r.heap
          /\ everP' = (everP \/ r.m.pBoost # NULL)
  /\ loaded' = Append(loaded, adaCli.input_model_file)
  /\ lastOp' = "load"
  /\ adaPc' = "test"
  /\ UNCHANGED <<splitVars, larsVars, trainingFile,
                 fs, saved, alive, archive, savedFrom,
                 lastClassify, adaCli, adaLog, trainingData, labelsIn, labels,
                 testingData, predictedLabels, results>>

\* Variant: the test set goes to Classify without the dimensionality
\* check.
AdaLoadTest_NoCheck ==
  /\ adaPc = "test"
  /\ HasParam(adaCli, "test_file")
  /\ \E r \in 1..MaxRows : testingData' = TestFile(r)
  /\ adaPc' = "classify"
  /\ loaded' = Append(loaded, adaCli.test_file)
  /\ UNCHANGED <<splitVars, larsVars, trainingFile, fs, saved, modelVars,
                 adaCli, adaLog, trainingData, labelsIn, labels,
                 predictedLabels, results>>

\* Lines 351-360: load the test set and compare its dimensionality.
AdaLoadTest ==
  /\ adaPc = "test"
  /\ HasParam(adaCli, "test_file")
  /\ \E r \in 1..MaxRows :
       /\ testingData' = TestFile(r)
       /\ IF r # m.dimensionality
          THEN /\ adaLog' = adaLog \cup {"fatal_dimensionality"}
               /\ adaPc' = "fatal"
          ELSE /\ adaLog' = adaLog
               /\ adaPc' = "classify"
  /\ loaded' = Append(loaded, adaCli.test_file)
  /\ UNCHANGED <<splitVars, larsVars, trainingFile,
                 fs, saved, modelVars, adaCli, trainingData,
                 labelsIn, labels, predictedLabels, results>>

\* Line 351: no --test_file, no classification.
AdaSkipTest ==
  /\ adaPc = "test"
  /\ ~HasParam(adaCli, "test_file")
  /\ adaPc' = "save_model"
  /\ UNCHANGED <<splitVars, larsVars, trainingFile,
                 ioVars, modelVars, adaCli, adaLog, trainingData,
                 labelsIn, labels, testingData, predictedLabels, results>>

\* Lines 362-371: classify, revert the labels, save them.
\* predictedLabels(testingData.n_cols) is created uninitialized.
AdaClassify ==
  /\ adaPc = "classify"
  /\ \E garbage \in [1..Len(testingData.cols) -> GarbageLabels],
        junk \in JunkReads :
       LET r == Classify(m, heap, testingData, garbage)
           reverted == RevertLabels(r.predictions, m.mappings, junk)
       IN /\ lastClassify' = [via |-> r.via, used |-> r.used,
                              crashed |-> r.crashed,
                              predictions |-> r.predictions,
                              after |-> lastOp]
          /\ IF r.crashed
             THEN /\ adaPc' = "crashed"
                  /\ alive' = "crashed"
                  /\ UNCHANGED <<predictedLabels, results, fs, saved>>
             ELSE /\ adaPc' = "save_model"
                  /\ alive' = alive
                  /\ predictedLabels' = r.predictions
                  /\ results' = reverted
                  /\ fs' = SaveIf(fs, adaCli.output_file, reverted)
                  /\ saved' = saved \o NonEmpty(<<adaCli.output_file>>)
  /\ lastOp' = "classify"
  /\ UNCHANGED <<splitVars, larsVars, trainingFile,
                 loaded, m, heap, archive, savedFrom, everP,
                 adaCli, adaLog, trainingData, labelsIn, labels, testingData>>

\* A model file holding an archive.
ModelFile(ar) == [kind |-> "model", cols |-> ar]

\* Lines 374-377: save the model if asked to; main returns and m is
\* destroyed.
AdaSaveModel ==
  /\ adaPc = "save_model"
  /\ IF HasParam(adaCli, "output_model_file")
     THEN /\ fs' = [fs EXCEPT ![adaCli.output_model_file] =
                      ModelFile(SerializeSave(m, heap))]
          /\ saved' = Append(saved, adaCli.output_model_file)
          /\ lastOp' = "save"
     ELSE UNCHANGED <<fs, saved, lastOp>>
  /\ heap' = Destroy(m, heap)
  /\ alive' = "destroyed"
  /\ adaPc' = "done"
  /\ UNCHANGED <<splitVars, larsVars, trainingFile,
                 loaded, m, archive, savedFrom, lastClassify,
                 everP, adaCli, adaLog, trainingData, labelsIn, labels,
                 testingData, predictedLabels, results>>

AdaNext ==
  \/ AdaCheckParams
  \/ AdaLoadTraining
  \/ AdaTrain
  \/ AdaLoadModel
  \/ AdaLoadTest
  \/ AdaSkipTest
  \/ AdaClassify
  \/ AdaSaveModel

\* ========================================================== lars main
\* ---- library (not under src/)
\* LARS lars(useCholesky, lambda1, lambda2): no model computed yet.
LARS_Constructed == [trained |-> FALSE, dim |-> 0]

\* lars.Train(matX, y, beta, false): one coefficient per column of matX
\* (the data is not transposed: a row is a point).
LARS_Train(x) == [trained |-> TRUE, dim |-> x.cols]

\* lars.Predict(testPoints.t(), predictions, false): one prediction per
\* test point (per row of testPoints).
LARS_Predict(model, points) == [i \in 1..points.rows |-> model.dim + i]

\* ---- inputs
LarsCliSet ==
  [input_file : {"", "x.csv"},
   responses_file : {"", "y.csv"},
   input_model_file : {"", "lars.bin"},
   output_model_file : {"", "lars_out.bin"},
   test_file : {"", "test.csv"},
   output_predictions : {"", "predictions_old.csv"},
   output_predictions_file : {"", "predictions.csv"}]

\* The shapes of the matrices a file may hold.
LarsShapes == [rows : 1..MaxLarsSize, cols : 1..MaxLarsSize]
NoShape == [rows |-> 0, cols |-> 0]

LarsInit ==
  /\ larsCli \in LarsCliSet
  /\ larsPc = "compat"
  /\ larsLog = {}
  /\ lars = LARS_Constructed
  /\ matX = NoShape
  /\ matY = NoShape
  /\ testPoints = NoShape
  /\ larsPredictions = <<>>

LarsFatals == {"fatal_both_predictions", "fatal_no_responses",
               "fatal_no_input", "fatal_no_input_no_model",
               "fatal_input_and_model", "fatal_responses_shape",
               "fatal_responses_count", "fatal_test_dimensionality"}

\* Lines 91-103: the reverse-compatibility option --output_predictions.
LarsReverseCompat ==
  /\ larsPc = "compat"
  /\ IF HasParam(larsCli, "output_predictions")
        /\ HasParam(larsCli, "output_predictions_file")
     THEN /\ larsLog' = larsLog \cup {"fatal_both_predictions"}
          /\ larsPc' = "fatal"
          /\ larsCli' = larsCli
     ELSE IF HasParam(larsCli, "output_predictions")
     THEN /\ larsLog' = larsLog \cup {"output_predictions_deprecated"}
          /\ larsCli' = [larsCli EXCEPT !.output_predictions_file =
                                          larsCli.output_predictions]
          /\ larsPc' = "params"
     ELSE /\ larsLog' = larsLog
          /\ larsCli' = larsCli
          /\ larsPc' = "params"
  /\ UNCHANGED <<splitVars, ioVars, modelVars, adaVars, lars, matX, matY,
                 testPoints, larsPredictions>>

\* Variant: --responses_file without --input_file is not checked.
LarsParamLog_NoReverseCheck(cli) ==
  IF HasParam(cli, "input_file") /\ ~HasParam(cli, "responses_file")
  THEN {"fatal_no_responses"}
  ELSE IF ~HasParam(cli, "input_file") /\ ~HasParam(cli, "input_model_file")
  THEN {"fatal_no_input_no_model"}
  ELSE IF HasParam(cli, "input_file") /\ HasParam(cli, "input_model_file")
  THEN {"fatal_input_and_model"}
  ELSE (IF cli.output_predictions_file = ""
           /\ ~HasParam(cli, "output_model_file")
        THEN {"no_output"} ELSE {})
       \cup (IF cli.output_predictions_file = ""
                /\ ~HasParam(cli, "test_file")
             THEN {"output_predictions_file_without_test_file"} ELSE {})
       \cup (IF HasParam(cli, "test_file")
                /\ cli.output_predictions_file = ""
             THEN {"test_file_without_output_predictions_file"} ELSE {})

\* Lines 108-138: the messages logged; Log::Fatal ends the run.
LarsParamLog(cli) ==
  IF HasParam(cli, "input_file") /\ ~HasParam(cli, "responses_file")
  THEN {"fatal_no_responses"}
  ELSE IF HasParam(cli, "responses_file") /\ ~HasParam(cli, "input_file")
  THEN {"fatal_no_input"}
  ELSE IF ~HasParam(cli, "input_file") /\ ~HasParam(cli, "input_model_file")
  THEN {"fatal_no_input_no_model"}
  ELSE IF HasParam(cli, "input_file") /\ HasParam(cli, "input_model_file")
  THEN {"fatal_input_and_model"}
  ELSE (IF cli.output_predictions_file = ""
           /\ ~HasParam(cli, "output_model_file")
        THEN {"no_output"} ELSE {})
       \cup (IF cli.output_predictions_file = ""
                /\ ~HasParam(cli, "test_file")
             THEN {"output_predictions_file_without_test_file"} ELSE {})
       \cup (IF HasParam(cli, "test_file")
                /\ cli.output_predictions_file = ""
             THEN {"test_file_without_output_predictions_file"} ELSE {})

LarsCheckParams ==
  /\ larsPc = "params"
  /\ larsLog' = larsLog \cup LarsParamLog(larsCli)
  /\ larsPc' = IF LarsParamLog(larsCli) \cap LarsFatals # {} THEN "fatal"
               ELSE "model"
  /\ UNCHANGED <<splitVars, ioVars, modelVars, adaVars, larsCli, lars, matX,
                 matY, testPoints, larsPredictions>>

\* trans(matY).
Trans(shape) == [rows |-> shape.cols, cols |-> shape.rows]

\* Lines 143-170: load covariates and responses, check them, train.
LarsTrain ==
  /\ larsPc = "model"
  /\ HasParam(larsCli, "input_file")
  /\ \E x \in LarsShapes, yFile \in LarsShapes :
       LET y == IF yFile.rows = 1 THEN Trans(yFile) ELSE yFile
       IN /\ matX' = x
          /\ matY' = y
          /\ IF y.cols > 1
             THEN /\ larsLog' = larsLog \cup {"fatal_responses_shape"}
                  /\ larsPc' = "fatal"
                  /\ lars' = lars
             ELSE IF y.rows * y.cols # x.rows
             THEN /\ larsLog' = larsLog \cup {"fatal_responses_count"}
                  /\ larsPc' = "fatal"
                  /\ lars' = lars
             ELSE /\ larsLog' = larsLog
                  /\ larsPc' = "test"
                  /\ lars' = LARS_Train(x)
  /\ loaded' = loaded \o <<larsCli.input_file, larsCli.responses_file>>
  /\ UNCHANGED <<splitVars, fs, saved, modelVars, adaVars, larsCli,
                 testPoints, larsPredictions>>

\* Lines 171-175: load the model from --input_model_file.
LarsLoadModel ==
  /\ larsPc = "model"
  /\ ~HasParam(larsCli, "input_file")
  /\ \E d \in 1..MaxLarsSize : lars' = [trained |-> TRUE, dim |-> d]
  /\ loaded' = Append(loaded, larsCli.input_model_file)
  /\ larsPc' = "test"
  /\ UNCHANGED <<splitVars, fs, saved, modelVars, adaVars, larsCli, larsLog,
                 matX, matY, testPoints, larsPredictions>>

\* Variant: the dimensionality message is logged with Log::Warn, so the
\* run goes on to predict and save.
LarsLoadTest_MismatchNotFatal ==
  /\ larsPc = "test"
  /\ HasParam(larsCli, "test_file")
  /\ \E t \in LarsShapes :
       /\ testPoints' = t
       /\ larsLog' = IF t.cols # lars.dim
                     THEN larsLog \cup {"fatal_test_dimensionality"}
                     ELSE larsLog
  /\ larsPc' = "predict"
  /\ loaded' = Append(loaded, larsCli.test_file)
  /\ UNCHANGED <<splitVars, fs, saved, modelVars, adaVars, larsCli, lars,
                 matX, matY, larsPredictions>>

\* Lines 177-191: load the test points and compare their dimensionality
\* (n_cols: the points are not transposed) with the model's.
LarsLoadTest ==
  /\ larsPc = "test"
  /\ HasParam(larsCli, "test_file")
  /\ \E t \in LarsShapes :
       /\ testPoints' = t
       /\ IF t.cols # lars.dim
          THEN /\ larsLog' = larsLog \cup {"fatal_test_dimensionality"}
               /\ larsPc' = "fatal"
          ELSE /\ larsLog' = larsLog
               /\ larsPc' = "predict"
  /\ loaded' = Append(loaded, larsCli.test_file)
  /\ UNCHANGED <<splitVars, fs, saved, modelVars, adaVars, larsCli, lars,
                 matX, matY, larsPredictions>>

\* Line 177: no --test_file, no predictions.
LarsSkipTest ==
  /\ larsPc = "test"
  /\ ~HasParam(larsCli, "test_file")
  /\ larsPc' = "save_model"
  /\ UNCHANGED <<splitVars, ioVars, modelVars, adaVars, larsCli, larsLog,
                 lars, matX, matY, testPoints, larsPredictions>>

\* Lines 193-202: predict, and save the predictions if a file is named.
LarsPredict ==
  /\ larsPc = "predict"
  /\ larsPredictions' = LARS_Predict(lars, testPoints)
  /\ fs' = SaveIf(fs, larsCli.output_predictions_file,
                  LARS_Predict(lars, testPoints))
  /\ saved' = saved \o NonEmpty(<<larsCli.output_predictions_file>>)
  /\ larsPc' = "save_model"
  /\ UNCHANGED <<splitVars, loaded, modelVars, adaVars, larsCli, larsLog,
                 lars, matX, matY, testPoints>>

\* A model file holding a LARS model.
LarsModelFile(model) == [kind |-> "lars_model", cols |-> <<model.dim>>]

\* Lines 205-210: save the model if asked to.
LarsSaveModel ==
  /\ larsPc = "save_model"
  /\ IF HasParam(larsCli, "output_model_file")
     THEN /\ fs' = [fs EXCEPT ![larsCli.output_model_file] =
                      LarsModelFile(lars)]
          /\ saved' = Append(saved, larsCli.output_model_file)
     ELSE UNCHANGED <<fs, saved>>
  /\ larsPc' = "done"
  /\ UNCHANGED <<splitVars, loaded, modelVars, adaVars, larsCli, larsLog,
                 lars, matX, matY, testPoints, larsPredictions>>

LarsNext ==
  \/ LarsReverseCompat
  \/ LarsCheckParams
  \/ LarsTrain
  \/ LarsLoadModel
  \/ LarsLoadTest
  \/ LarsSkipTest
  \/ LarsPredict
  \/ LarsSaveModel

\* ====================================================== specifications
\* The variables of the programs that are not running.
SplitIdle ==
  /\ splitCli = [seed |-> 0]
  /\ splitPc = "idle"
  /\ randomSeed = 0
  /\ seedCalls = <<>>
  /\ data = <<>>
  /\ value = NoValue
  /\ order = <<>>
  /\ labelsRow = <<>>
  /\ splitLog = {}

IoIdle ==
  /\ fs = [p \in Paths |-> NoFile]
  /\ loaded = <<>>
  /\ saved = <<>>

ModelIdle ==
  /\ m = Constructed(<<>>, DECISION_STUMP)
  /\ heap = [a \in Addrs |-> Free]
  /\ alive = "idle"
  /\ archive = NoArchive
  /\ savedFrom = NoSnapshot
  /\ lastClassify = NoClassify
  /\ lastOp = "none"
  /\ everP = FALSE

AdaIdle ==
  /\ adaCli = [passed |-> {}]
  /\ adaPc = "idle"
  /\ adaLog = {}
  /\ trainingData = [rows |-> 0, cols |-> <<>>]
  /\ labelsIn = <<>>
  /\ labels = <<>>
  /\ testingData = [rows |-> 0, cols |-> <<>>]
  /\ predictedLabels = <<>>
  /\ results = <<>>
  /\ trainingFile = [rows |-> 0, cols |-> <<>>]

LarsIdle ==
  /\ larsCli = [input_file |-> ""]
  /\ larsPc = "idle"
  /\ larsLog = {}
  /\ lars = LARS_Constructed
  /\ matX = NoShape
  /\ matY = NoShape
  /\ testPoints = NoShape
  /\ larsPredictions = <<>>

\* One run of mlpack_preprocess_split.
SpecSplitInit == SplitInit /\ ModelIdle /\ AdaIdle /\ LarsIdle
SpecSplit == SpecSplitInit /\ [][SplitNext]_vars

\* One AdaBoostModel object under any sequence of its operations.
SpecModelInit == ModelInit /\ SplitIdle /\ IoIdle /\ AdaIdle /\ LarsIdle
SpecModel == SpecModelInit /\ [][ModelNext]_vars

\* One run of mlpack_adaboost.
SpecAdaInit == AdaInit /\ SplitIdle /\ IoIdle /\ LarsIdle
SpecAda == SpecAdaInit /\ [][AdaNext]_vars

\* One run of mlpack_lars.
SpecLarsInit == LarsInit /\ SplitIdle /\ IoIdle /\ ModelIdle /\ AdaIdle
SpecLars == SpecLarsInit /\ [][LarsNext]_vars

\* One run of any of the three programs.
ProgramsInit == SpecSplitInit \/ SpecAdaInit \/ SpecLarsInit
ProgramsNext == SplitNext \/ AdaNext \/ LarsNext
SpecPrograms == ProgramsInit /\ [][ProgramsNext]_vars

\* ------------------------------------------------------------ claims
\* The original column index of a point of Dataset(n).
IndexOf(point) == point \div 10

SplitReturned == splitPc \in {"save", "done"}

\* C1: Split returns a test set of round(r*N) points and a training set of
\* the other N - round(r*N); as sets of original column indices the two
\* are disjoint, without repetition, and together the full index set; r=0
\* gives an empty test set and r=1 an empty training set.
C1_SplitIsPartition ==
  SplitReturned =>
    LET n == Len(data)
        testSize == Round(splitCli.test_ratio, n)
        train == {IndexOf(value[1][i]) : i \in 1..Len(value[1])}
        test == {IndexOf(value[2][i]) : i \in 1..Len(value[2])}
    IN /\ Len(value[2]) = testSize
       /\ Len(value[1]) = n - testSize
       /\ Cardinality(train) = Len(value[1])
       /\ Cardinality(test) = Len(value[2])
       /\ train \cap test = {}
       /\ train \cup test = 1..n
       /\ (splitCli.test_ratio = 0 => value[2] = <<>>)
       /\ (splitCli.test_ratio = 10 => value[1] = <<>>)

\* C1 witness: three points split in half: round(1.5) = 2 test points.
C1_Witness ==
  /\ splitPc = "done"
  /\ Len(data) = 3
  /\ splitCli.test_ratio = 5
  /\ Len(value[1]) = 1
  /\ Len(value[2]) = 2

\* C2: with labels, every output column keeps its label: trainLabels[i]
\* (testLabels[i]) is the input label of the point now at column i of the
\* training (test) set, and the label outputs are as long as the data
\* outputs.
C2_LabelsFollowPoints ==
  (SplitReturned /\ HasParam(splitCli, "input_labels_file")) =>
    /\ Len(value[3]) = Len(value[1])
    /\ Len(value[4]) = Len(value[2])
    /\ \A i \in 1..Len(value[1]) :
         value[3][i] = labelsRow[IndexOf(value[1][i])]
    /\ \A i \in 1..Len(value[2]) :
         value[4][i] = labelsRow[IndexOf(value[2][i])]

\* C2 witness: a labelled split that moved points, with both labels present
\* and both subsets non-empty.
C2_Witness ==
  /\ splitPc = "done"
  /\ HasParam(splitCli, "input_labels_file")
  /\ Len(data) = 3
  /\ order # <<1, 2, 3>>
  /\ SeqSet(labelsRow) = LabelVals
  /\ value[1] # <<>>
  /\ value[2] # <<>>

\* C3: the random source is seeded once, before the split, with the literal
\* seed when it is nonzero and with the time only when it is 0; with a
\* nonzero seed the partition is a function of dataset, ratio and seed, so
\* two runs on the same inputs return the same partition.
C3_SeededOnceDeterministic ==
  /\ Len(seedCalls) <= 1
  /\ (splitPc # "seed" => Len(seedCalls) = 1)
  /\ (value # NoValue => Len(seedCalls) = 1)
  /\ (seedCalls # <<>> =>
        IF splitCli.seed # 0 THEN seedCalls[1] = splitCli.seed
        ELSE seedCalls[1] \in Times)
  /\ ((SplitReturned /\ splitCli.seed # 0) =>
        LET r == Split(data, splitCli.test_ratio, RandomSeed(splitCli.seed))
        IN /\ order = r.order
           /\ value[1] = r.train
           /\ value[2] = r.test)

\* C3 witness: a finished run with seed 42 whose permutation moved points.
C3_Witness ==
  /\ splitPc = "done"
  /\ splitCli.seed = 42
  /\ Len(data) = 3
  /\ order # <<1, 2, 3>>

\* C4: a test_ratio outside [0,1] ends the run fatally before anything is
\* loaded, split or saved; without --test_ratio the check never fails and
\* the split uses 0.2.
C4_RatioCheckedFirst ==
  /\ (splitPc = "fatal" =>
        /\ loaded = <<>>
        /\ saved = <<>>
        /\ value = NoValue
        /\ \A p \in Paths \ {"in.csv", "labels.csv"} : fs[p] = NoFile)
  /\ ((splitCli.has_test_ratio /\ splitPc \notin {"seed", "warn", "ratio"}
       /\ (splitCli.test_ratio < 0 \/ splitCli.test_ratio > 10)) =>
        splitPc = "fatal")
  /\ (~splitCli.has_test_ratio =>
        /\ splitPc # "fatal"
        /\ "fatal_test_ratio" \notin splitLog
        /\ (SplitReturned =>
              Len(value[2]) = Round(DefaultTestRatio, Len(data))))

\* C4 witness: a run that ended fatally on a ratio above 1.
C4_Witness ==
  /\ splitPc = "fatal"
  /\ splitCli.test_ratio = 11
  /\ "fatal_test_ratio" \in splitLog

\* C5: at most one of dsBoost and pBoost is non-null, and the non-null one
\* matches the current weak-learner tag, after any sequence of
\* construction, tag changes, Train and Serialize calls.
C5_OneEnsembleMatchingTag ==
  alive = "alive" =>
    /\ ~(m.dsBoost # NULL /\ m.pBoost # NULL)
    /\ (m.dsBoost # NULL => m.weakLearnerType = DECISION_STUMP)
    /\ (m.pBoost # NULL => m.weakLearnerType = PERCEPTRON)

\* C6: every ensemble ever allocated is owned by the model or has been
\* freed, and after destruction none remains allocated.
C6_NoEnsembleLeft ==
  /\ (alive = "alive" =>
        \A a \in Addrs : heap[a] # Free => a \in {m.dsBoost, m.pBoost})
  /\ (alive = "destroyed" => \A a \in Addrs : heap[a] = Free)

\* C7: Classify goes through the ensemble the current tag selects and no
\* other; after loading a model tagged decision_stump the perceptron
\* pointer is null, so Classify then uses the decision-stump ensemble even
\* if the object owned a perceptron ensemble before.
C7_ClassifyDispatchesOnTag ==
  /\ (lastOp = "classify" =>
        /\ (m.weakLearnerType = DECISION_STUMP =>
              lastClassify.via = "ds" /\ lastClassify.used = m.dsBoost)
        /\ (m.weakLearnerType = PERCEPTRON =>
              lastClassify.via = "p" /\ lastClassify.used = m.pBoost)
        /\ (m.weakLearnerType \notin {DECISION_STUMP, PERCEPTRON} =>
              lastClassify.via = "none" /\ lastClassify.used = NULL)
        /\ (lastClassify.used # NULL =>
              heap[lastClassify.used].kind = lastClassify.via)
        /\ ((lastClassify.after = "load"
             /\ m.weakLearnerType = DECISION_STUMP) =>
              lastClassify.via = "ds" /\ m.pBoost = NULL))
  /\ ((lastOp = "load" /\ m.weakLearnerType = DECISION_STUMP) =>
        m.pBoost = NULL)

\* C7 witness: an object that owned a perceptron ensemble loaded a
\* decision_stump model and then classified through the stump ensemble.
C7_Witness ==
  /\ lastOp = "classify"
  /\ lastClassify.after = "load"
  /\ everP
  /\ m.weakLearnerType = DECISION_STUMP
  /\ lastClassify.via = "ds"
  /\ lastClassify.used # NULL
  /\ ~lastClassify.crashed

\* C8: loading the archive of a trained model restores its mapping table,
\* tag, selected ensemble and dimensionality, and Classify on the loaded
\* model returns what it returned on the model that was saved.
C8_SaveLoadRoundTrip ==
  (lastOp = "load" /\ savedFrom.ensemble.kind \in {"ds", "p"}) =>
    /\ m.mappings = savedFrom.mappings
    /\ m.weakLearnerType = savedFrom.weakLearnerType
    /\ m.dimensionality = savedFrom.dimensionality
    /\ SelectedEnsemble(m, heap) = savedFrom.ensemble
    /\ PredictionsOf(m, heap) = savedFrom.predictions

\* C8 witness: a trained perceptron model was saved and loaded back.
C8_Witness ==
  /\ lastOp = "load"
  /\ savedFrom.ensemble.kind = "p"
  /\ savedFrom.mappings = <<5, 9>>
  /\ m.pBoost # NULL
  /\ m.dimensionality = 2
  /\ \E t \in TestSets : PredictionsOf(m, heap)[t] # <<>>

\* The run loaded its model from --input_model_file.
AdaModelLoaded ==
  /\ adaPc \in {"test", "classify", "save_model", "done", "fatal", "crashed"}
  /\ ~HasParam(adaCli, "training_file")
  /\ HasParam(adaCli, "input_model_file")
  /\ loaded # <<>>

\* The run trained its model.
AdaModelTrained ==
  /\ adaPc \in {"test", "classify", "save_model", "done", "fatal", "crashed"}
  /\ HasParam(adaCli, "training_file")
  /\ loaded # <<>>

\* NormalizeLabels maps the labels read onto 0..K-1 and RevertLabels with
\* the model's table maps them back (the part of C9 about training runs).
AdaLabelsRoundTrip ==
  AdaModelTrained =>
    /\ SeqSet(labels) = 0..(Cardinality(SeqSet(labelsIn)) - 1)
    /\ Len(m.mappings) = Cardinality(SeqSet(labelsIn))
    /\ \A junk \in JunkReads :
         RevertLabels(labels, m.mappings, junk) = labelsIn

\* The labels written are the predictions reverted through the model's
\* table and belong to the table's vocabulary.
AdaReportedInVocabulary ==
  (adaPc \in {"save_model", "done"} /\ HasParam(adaCli, "test_file")) =>
    /\ Len(results) = Len(testingData.cols)
    /\ \A i \in 1..Len(results) :
         /\ predictedLabels[i] < Len(m.mappings)
         /\ results[i] = m.mappings[predictedLabels[i] + 1]
         /\ results[i] \in SeqSet(m.mappings)
    /\ (HasParam(adaCli, "output_file") =>
          fs[adaCli.output_file] = Mat(results))

\* C9: normalizing then reverting returns the labels, over any vocabulary;
\* every prediction is reverted through the model's mapping table before
\* it is written, so the reported labels belong to the original vocabulary.
C9_LabelsRevertedBeforeReport ==
  AdaLabelsRoundTrip /\ AdaReportedInVocabulary

\* The part of C9 that holds in every run: whenever Classify went through
\* an ensemble, the labels written belong to the vocabulary.
C9_HoldsWithKnownTag ==
  /\ AdaLabelsRoundTrip
  /\ (m.weakLearnerType \in {DECISION_STUMP, PERCEPTRON} =>
        AdaReportedInVocabulary)

\* C10: loading a model whose stored tag is neither DecisionStump nor
\* Perceptron is fatal: the run does not get past the load, and neither
\* classifies nor saves with that model.
C10_UnknownTagLoadIsFatal ==
  (AdaModelLoaded /\ m.weakLearnerType \notin {DECISION_STUMP, PERCEPTRON}) =>
    /\ adaPc = "fatal"
    /\ lastOp # "classify"
    /\ saved = <<>>


\* The model is Trained: a known tag whose ensemble is owned.
AdaTrainedState ==
  /\ m.weakLearnerType \in {DECISION_STUMP, PERCEPTRON}
  /\ Selected(m) # NULL
  /\ heap[Selected(m)].kind =
       (IF m.weakLearnerType = DECISION_STUMP THEN "ds" ELSE "p")

\* The run loaded a test file.
AdaTestLoaded == testingData.rows > 0

SplitConfigErrors == {"fatal_test_ratio"}
AdaConfigErrors == {"fatal_both", "fatal_neither", "fatal_weak_learner",
                    "fatal_iterations"}
LarsConfigErrors == {"fatal_both_predictions", "fatal_no_responses",
                     "fatal_no_input", "fatal_no_input_no_model",
                     "fatal_input_and_model"}

\* The command lines that pass every configuration check.
SplitConfigValid ==
  splitCli.has_test_ratio =>
    (splitCli.test_ratio >= 0 /\ splitCli.test_ratio <= 10)
AdaConfigValid ==
  /\ HasParam(adaCli, "training_file") # HasParam(adaCli, "input_model_file")
  /\ adaCli.weak_learner \in {"decision_stump", "perceptron"}
  /\ adaCli.iterations >= 0
LarsConfigValid ==
  /\ ~(HasParam(larsCli, "output_predictions")
       /\ larsCli.output_predictions_file # larsCli.output_predictions)
  /\ HasParam(larsCli, "input_file") = HasParam(larsCli, "responses_file")
  /\ HasParam(larsCli, "input_file") # HasParam(larsCli, "input_model_file")

\* C12: in a run of any of the three programs, a configuration error ends
\* the run before the first Load: a run that logged one has loaded nothing,
\* and a run that has loaded a file had a configuration passing every
\* check.
C12_ConfigChecksBeforeLoad ==
  /\ (splitLog \cap SplitConfigErrors # {} =>
        splitPc = "fatal" /\ loaded = <<>>)
  /\ (adaLog \cap AdaConfigErrors # {} => adaPc = "fatal" /\ loaded = <<>>)
  /\ (larsLog \cap LarsConfigErrors # {} =>
        larsPc = "fatal" /\ loaded = <<>>)
  /\ ((loaded # <<>> /\ splitPc # "idle") => SplitConfigValid)
  /\ ((loaded # <<>> /\ adaPc # "idle") => AdaConfigValid)
  /\ ((loaded # <<>> /\ larsPc # "idle") => LarsConfigValid)

\* C12 witness: a run of adaboost asked for a negative number of
\* iterations on a training file and ended before loading it.
C12_Witness ==
  /\ adaPc = "fatal"
  /\ "fatal_iterations" \in adaLog
  /\ HasParam(adaCli, "training_file")
  /\ HasParam(adaCli, "test_file")
  /\ loaded = <<>>


\* No file has been written in this run.
NothingWritten ==
  /\ saved = <<>>
  /\ \A p \in Paths \ {"in.csv", "labels.csv"} : fs[p] = NoFile

\* C13: a run that reported a fatal error has ended and has written no
\* output: in adaboost neither predictions nor model, also when training
\* succeeded before a test-set dimensionality mismatch; in lars neither
\* predictions nor model after a responses or test-set mismatch; in the
\* split program no train or test file.
C13_NoOutputAfterFatal ==
  /\ ((splitPc = "fatal" \/ splitLog \cap {"fatal_test_ratio", "fatal_load"}
                              # {}) =>
        splitPc = "fatal" /\ NothingWritten)
  /\ ((adaPc = "fatal" \/ adaLog \cap Fatals # {}) =>
        adaPc = "fatal" /\ NothingWritten)
  /\ ((larsPc = "fatal" \/ larsLog \cap LarsFatals # {}) =>
        larsPc = "fatal" /\ NothingWritten)

\* C13 witness: lars trained a model, was asked to save model and
\* predictions, and ended on the test-set dimensionality mismatch.
C13_Witness ==
  /\ larsPc = "fatal"
  /\ "fatal_test_dimensionality" \in larsLog
  /\ lars.trained
  /\ HasParam(larsCli, "input_file")
  /\ HasParam(larsCli, "output_model_file")
  /\ larsCli.output_predictions_file # ""
  /\ NothingWritten


\* What the split program computes from dataset, labels, ratio and the
\* value the random source was seeded with: no output path takes part.
SplitComputed ==
  LET s == RandomSeed(seedCalls[1])
  IN IF HasParam(splitCli, "input_labels_file")
     THEN LET r == SplitLabels(data, labelsRow, splitCli.test_ratio, s)
          IN <<r.train, r.test, r.trainLabels, r.testLabels>>
     ELSE LET r == Split(data, splitCli.test_ratio, s)
          IN <<r.train, r.test>>

\* The output paths of the split program, in the order of their saves.
SplitOutputs ==
  IF HasParam(splitCli, "input_labels_file")
  THEN <<splitCli.training_file, splitCli.test_file,
         splitCli.training_labels_file, splitCli.test_labels_file>>
  ELSE <<splitCli.training_file, splitCli.test_file>>

\* Output k has a path of its own: given, and given to no other output.
OwnPath(outputs, k) ==
  /\ outputs[k] # ""
  /\ \A j \in 1..Len(outputs) : j # k => outputs[j] # outputs[k]

\* The split program: the partition does not depend on the output paths,
\* and exactly the outputs whose path is given are saved, with it.
SplitOutputsOnlySuppressSaves ==
  /\ (SplitReturned => value = SplitComputed)
  /\ (splitPc = "done" =>
        /\ saved = NonEmpty(SplitOutputs)
        /\ \A k \in 1..Len(SplitOutputs) :
             OwnPath(SplitOutputs, k) =>
               fs[SplitOutputs[k]] = Mat(value[k]))

\* adaboost, training: the model is what Train makes of the training data
\* and the normalized labels, whatever the output paths.
AdaTrainedModelComputed ==
  (AdaModelTrained /\ adaPc \in {"test", "classify", "save_model"}) =>
    LET n == NormalizeLabels(labelsIn)
        tag == WeakLearnerTag(m, adaCli.weak_learner)
    IN /\ m.mappings = n.mappings
       /\ m.weakLearnerType = tag
       /\ m.dimensionality = trainingData.rows
       /\ Selected(m) # NULL
       /\ heap[Selected(m)] =
            Ensemble(IF tag = DECISION_STUMP THEN "ds" ELSE "p",
                     trainingData, n.labels)

\* adaboost, classification: the predictions are what the model's
\* ensemble predicts for the test set, reverted through its table.
AdaPredictionsComputed ==
  (adaPc = "save_model" /\ HasParam(adaCli, "test_file")) =>
    /\ Selected(m) # NULL
    /\ predictedLabels = Predict(heap[Selected(m)], testingData)
    /\ \A junk \in JunkReads :
         results = RevertLabels(predictedLabels, m.mappings, junk)

\* adaboost: exactly the outputs whose path is given are saved.
AdaOutputsSaved ==
  /\ (adaPc = "save_model" =>
        /\ saved = (IF HasParam(adaCli, "test_file")
                    THEN NonEmpty(<<adaCli.output_file>>) ELSE <<>>)
        /\ ((HasParam(adaCli, "test_file")
             /\ HasParam(adaCli, "output_file")) =>
              fs[adaCli.output_file] = Mat(results)))
  /\ (adaPc = "done" =>
        /\ saved = (IF HasParam(adaCli, "test_file")
                    THEN NonEmpty(<<adaCli.output_file>>) ELSE <<>>)
                   \o NonEmpty(<<adaCli.output_model_file>>)
        /\ (HasParam(adaCli, "output_model_file") =>
              /\ fs[adaCli.output_model_file].kind = "model"
              /\ fs[adaCli.output_model_file].cols[1] = m.mappings
              /\ fs[adaCli.output_model_file].cols[2] = m.weakLearnerType))

\* C14: what is computed does not depend on which optional output paths
\* are given: the partition of the split program, and the trained model
\* and the predictions of adaboost, are functions of the inputs, the seed
\* and the parameters alone; each output whose path is given is saved
\* with that content, and an omitted path suppresses only its own save.
C14_WarningsChangeNothing ==
  /\ SplitOutputsOnlySuppressSaves
  /\ AdaTrainedModelComputed
  /\ AdaPredictionsComputed
  /\ AdaOutputsSaved

\* The part of C14 that holds in every run: everything but the
\* predictions of a model whose tag is neither enumerator.
C14_HoldsWithKnownTag ==
  /\ SplitOutputsOnlySuppressSaves
  /\ AdaTrainedModelComputed
  /\ (m.weakLearnerType \in {DECISION_STUMP, PERCEPTRON} =>
        AdaPredictionsComputed)
  /\ AdaOutputsSaved


\* The run is past the validation of its command line.
AdaPastValidation ==
  adaPc \in {"model", "train", "test", "classify", "save_model", "done",
             "crashed"}
LarsPastValidation ==
  larsPc \in {"model", "test", "predict", "save_model", "done"}

\* Both --output_predictions and --output_predictions_file were given
\* (the first is copied over the second once the check has passed).
LarsBothPredictionFlags ==
  /\ HasParam(larsCli, "output_predictions")
  /\ larsCli.output_predictions_file # ""
  /\ larsCli.output_predictions_file # larsCli.output_predictions

\* C15: adaboost gets past validation only with exactly one of
\* training_file and input_model_file (both, or neither, is fatal); lars
\* only with exactly one of input_file and input_model_file, input_file
\* given if and only if responses_file is, and not both of
\* output_predictions and output_predictions_file.
C15_ExclusiveFlagsEnforced ==
  /\ (AdaPastValidation =>
        HasParam(adaCli, "training_file")
          # HasParam(adaCli, "input_model_file"))
  /\ ((adaPc \notin {"idle", "params"}
       /\ HasParam(adaCli, "training_file")
       /\ HasParam(adaCli, "input_model_file")) =>
        adaPc = "fatal" /\ "fatal_both" \in adaLog)
  /\ ((adaPc \notin {"idle", "params"}
       /\ ~HasParam(adaCli, "training_file")
       /\ ~HasParam(adaCli, "input_model_file")) =>
        adaPc = "fatal" /\ "fatal_neither" \in adaLog)
  /\ (LarsPastValidation =>
        /\ HasParam(larsCli, "input_file")
             # HasParam(larsCli, "input_model_file")
        /\ HasParam(larsCli, "input_file")
             = HasParam(larsCli, "responses_file")
        /\ ~LarsBothPredictionFlags)
  /\ ((larsPc \notin {"idle", "compat"} /\ LarsBothPredictionFlags) =>
        larsPc = "fatal" /\ "fatal_both_predictions" \in larsLog)
  /\ ((larsPc \notin {"idle", "compat", "params"}
       /\ (HasParam(larsCli, "input_file")
             = HasParam(larsCli, "input_model_file")
           \/ HasParam(larsCli, "input_file")
                # HasParam(larsCli, "responses_file"))) =>
        larsPc = "fatal")

\* C15 witness: lars got past validation with an input model alone and
\* the predictions file named through the old flag.
C15_Witness ==
  /\ larsPc = "done"
  /\ HasParam(larsCli, "input_model_file")
  /\ ~HasParam(larsCli, "input_file")
  /\ ~HasParam(larsCli, "responses_file")
  /\ HasParam(larsCli, "output_predictions")
  /\ larsCli.output_predictions_file = larsCli.output_predictions
  /\ "output_predictions_deprecated" \in larsLog


\* C16: the split program does not modify its source: whatever paths are
\* given, the input data file and the input labels file hold after the
\* run what was loaded from them, and no split result is saved to them.
C16_SourceUnmodified ==
  /\ (splitPc \in {"split", "save", "done"} =>
        fs[splitCli.input_file] = Mat(data))
  /\ ((splitPc \in {"save", "done"}
       /\ HasParam(splitCli, "input_labels_file")) =>
        fs[splitCli.input_labels_file] = Mat(labelsRow))
  /\ (splitPc # "idle" =>
        /\ splitCli.input_file \notin SeqSet(saved)
        /\ (HasParam(splitCli, "input_labels_file") =>
              splitCli.input_labels_file \notin SeqSet(saved)))


KnownTag(model) == model.weakLearnerType \in {DECISION_STUMP, PERCEPTRON}

Allocated(hp) == {a \in Addrs : hp[a] # Free}

\* A step of Serialize (saving): mappings, tag, the ensemble the tag
\* selects and no other, dimensionality, in this order.
SaveWritesSelected ==
  lastOp' = "save" =>
    archive' = <<m.mappings, m.weakLearnerType>>
               \o (IF KnownTag(m) THEN <<SelectedEnsemble(m, heap)>>
                   ELSE <<>>)
               \o <<m.dimensionality>>

\* A step of Serialize (loading): the ensembles owned before are released
\* (the only new allocation is the ensemble read); the tag is the one
\* archived, and it decides which pointer receives the archived payload;
\* the other pointer is null whatever the object held.
LoadReleasesAndReads ==
  lastOp' = "load" =>
    /\ Cardinality(Allocated(heap')) =
         Cardinality(Allocated(heap) \ {m.dsBoost, m.pBoost})
         + (IF Selected(m') # NULL THEN 1 ELSE 0)
    /\ m'.mappings = archive[1]
    /\ m'.weakLearnerType = archive[2]
    /\ m'.dimensionality = archive[Len(archive)]
    /\ (m'.weakLearnerType = DECISION_STUMP => m'.pBoost = NULL)
    /\ (m'.weakLearnerType = PERCEPTRON => m'.dsBoost = NULL)
    /\ (KnownTag(m') => SelectedEnsemble(m', heap') = archive[3])
    /\ (~KnownTag(m') => m'.dsBoost = NULL /\ m'.pBoost = NULL)

\* After a load with a recognized tag the ensemble it selects is owned.
LoadOwnsSelected ==
  (lastOp' = "load" /\ KnownTag(m')) => Selected(m') # NULL

\* ... is owned if the archive holds one: the archive of a model that
\* was never trained holds a null pointer.
LoadOwnsSelectedIfArchived ==
  (lastOp' = "load" /\ KnownTag(m')) =>
    (Selected(m') # NULL <=> archive[3] # NullPayload)

\* C17 as stated: Serialize handles one ensemble payload, chosen by the
\* tag: saving writes only the ensemble matching the tag; loading releases
\* and nulls both pointers, reads the tag before the payload, and after a
\* load with a recognized tag exactly the ensemble matching the loaded tag
\* is owned and the other pointer is null, whatever the object held.
C17_SerializeOnePayload ==
  [][SaveWritesSelected /\ LoadReleasesAndReads /\ LoadOwnsSelected]_vars

\* C17 as amended: ... after a load with a recognized tag the other
\* pointer is null, and the ensemble matching the loaded tag is owned
\* exactly when the archive holds one.
C17_SerializeOnePayloadIfArchived ==
  [][SaveWritesSelected /\ LoadReleasesAndReads
     /\ LoadOwnsSelectedIfArchived]_vars

\* C17 witness: the archive of a trained perceptron model was loaded: the
\* object owns the archived perceptron ensemble alone, and nothing else
\* is allocated.
C17_Witness ==
  /\ lastOp = "load"
  /\ archive[2] = PERCEPTRON
  /\ archive[3].kind = "p"
  /\ m.dsBoost = NULL
  /\ m.pBoost # NULL
  /\ heap[m.pBoost] = archive[3]
  /\ Allocated(heap) = {m.pBoost}
  /\ savedFrom.weakLearnerType = PERCEPTRON


\* The row count of the data a training run trains on: the training
\* file's, less the last row when it holds the labels.
AdaTrainedRows ==
  IF HasParam(adaCli, "labels_file") THEN trainingFile.rows
  ELSE trainingFile.rows - 1

\* C18: Train records as dimensionality the row count of the data it
\* trains on: the training file's row count when labels_file is given,
\* and otherwise, the last row being taken as the labels and removed
\* first, that row count minus one; a test file is accepted only if it
\* has that many rows.
C18_DimensionalityIsTrainedRows ==
  AdaModelTrained =>
    /\ m.dimensionality = AdaTrainedRows
    /\ m.dimensionality = trainingData.rows
    /\ (HasParam(adaCli, "labels_file") => trainingData = trainingFile)
    /\ (~HasParam(adaCli, "labels_file") =>
          /\ labelsIn = LastRow(trainingFile)
          /\ trainingData = ShedLastRow(trainingFile))
    /\ (AdaTestLoaded =>
          IF testingData.rows = AdaTrainedRows
          THEN adaPc \in {"classify", "save_model", "done", "crashed"}
          ELSE adaPc = "fatal" /\ "fatal_dimensionality" \in adaLog)

\* C18 witness: a training file of three rows and no labels file: the
\* model has dimensionality two, and a test file of two rows was
\* classified.
C18_Witness ==
  /\ adaPc = "done"
  /\ AdaModelTrained
  /\ ~HasParam(adaCli, "labels_file")
  /\ trainingFile.rows = 3
  /\ Len(trainingFile.cols) = 1
  /\ m.dimensionality = 2
  /\ testingData.rows = 2
  /\ Len(results) = 2


\* C19: past validation, lars has warned "--output_predictions_file (-o)
\* specified, but --test_file (-t) is not" exactly when a predictions file
\* is specified (by either flag) and test_file is not, and "--test_file
\* (-t) specified, but --output_predictions_file (-o) is not" exactly when
\* test_file is specified and no predictions file is; a finished run has
\* saved predictions exactly when both are specified.
C19_PredictionWarnings ==
  LarsPastValidation =>
    /\ ("output_predictions_file_without_test_file" \in larsLog
          <=> (larsCli.output_predictions_file # ""
               /\ ~HasParam(larsCli, "test_file")))
    /\ ("test_file_without_output_predictions_file" \in larsLog
          <=> (HasParam(larsCli, "test_file")
               /\ larsCli.output_predictions_file = ""))
    /\ (larsPc = "done" =>
          (larsCli.output_predictions_file \in SeqSet(saved)
             <=> (larsCli.output_predictions_file # ""
                  /\ HasParam(larsCli, "test_file"))))

\* The parts of C19 that hold: the second warning and the save.
C19_HoldsForTestFileWarning ==
  LarsPastValidation =>
    /\ ("test_file_without_output_predictions_file" \in larsLog
          <=> (HasParam(larsCli, "test_file")
               /\ larsCli.output_predictions_file = ""))
    /\ (larsPc = "done" =>
          (larsCli.output_predictions_file \in SeqSet(saved)
             <=> (larsCli.output_predictions_file # ""
                  /\ HasParam(larsCli, "test_file"))))


\* C20: whenever a run of adaboost reaches the Classify call, after
\* training or after loading a model, the model is Trained (a known tag,
\* and the ensemble it selects is owned), so Classify does not go through
\* a null pointer and writes every prediction.
C20_ClassifyOnTrainedModel ==
  /\ (adaPc = "classify" => AdaTrainedState)
  /\ adaPc # "crashed"
  /\ ((adaPc = "save_model" /\ lastOp = "classify") =>
        /\ ~lastClassify.crashed
        /\ lastClassify.via # "none"
        /\ lastClassify.used = Selected(m)
        /\ predictedLabels = Predict(heap[Selected(m)], testingData))

\* The part of C20 that holds: a run that trained its model classifies
\* with a Trained model.
C20_HoldsAfterTraining ==
  AdaModelTrained =>
    /\ (adaPc = "classify" => AdaTrainedState)
    /\ adaPc # "crashed"
    /\ ((adaPc = "save_model" /\ lastOp = "classify") =>
          /\ ~lastClassify.crashed
          /\ lastClassify.via # "none"
          /\ lastClassify.used = Selected(m)
          /\ predictedLabels = Predict(heap[Selected(m)], testingData))

====
